---- MODULE Spec2Model ----
(***************************************************************************)
(* A model of two parts of prefect.orion:                                  *)
(*   - services/scheduler.py : Scheduler.run_once, the pass that pages     *)
(*     through the deployments and persists their scheduled flow runs;     *)
(*   - schemas/filters.py    : the filter classes and as_sql_filter.       *)
(***************************************************************************)
EXTENDS Integers, Sequences, FiniteSets, Bags, TLC

(***************************************************************************)
(* Bounds of the model.                                                    *)
(***************************************************************************)
MaxDeployments == 3
MaxClock == 1
MaxBatchSize == 2
MaxRuns == 2
MaxScheduledTime == 2
MaxChanges == 2
MaxListLen == 1
MaxTags == 2
MaxSlots == 1
SharedDeployments == 1

None == 0
DeploymentIds == 1..MaxDeployments
Procs == {1, 2}

VARIABLES
    deployments,                 \* the deployment table: id -> row
    flow_runs,                   \* the committed flow run table, a bag of <<deployment id, time>>
    clock,                       \* wall clock read by pendulum.now
    deployment_batch_size,       \* Scheduler.deployment_batch_size
    max_runs,                    \* Scheduler.max_runs
    max_scheduled_time,          \* Scheduler.max_scheduled_time
    scheduler_insert_batch_size, \* settings.scheduler_insert_batch_size
    pc,                          \* per scheduler process: position in run_once
    now,                         \* run_once local
    total_inserted_runs,         \* run_once local
    session,                     \* rows written in the open transaction, a bag
    last_id,                     \* run_once local
    page,                        \* run_once local "deployments": ids of the page
    next_dep,                    \* index in page of the next deployment of the for loop
    all_runs,                    \* run_once local
    batches,                     \* the batches batched_iterable has still to yield
    hist,                        \* per process: what the current invocation did so far
    filter_class,                \* the class of the filter object at hand
    filter,                      \* the filter object
    entity,                      \* the row the compiled filter is applied to
    compiled,                    \* the value of the compiled clause on the row
    from_criteria                \* the filter is a default of BaseFilterCriteria()

schedVars == <<deployments, flow_runs, clock, deployment_batch_size, max_runs,
               max_scheduled_time, scheduler_insert_batch_size, pc, now,
               total_inserted_runs, session, last_id, page, next_dep, all_runs,
               batches, hist>>

filterVars == <<filter_class, filter, entity, compiled, from_criteria>>

vars == <<schedVars, filterVars>>

(***************************************************************************)
(* Helpers on sets, sequences and bags.                                    *)
(***************************************************************************)
Min(S) == CHOOSE x \in S : \A y \in S : x <= y

RECURSIVE SortedSeq(_)
SortedSeq(S) == IF S = {} THEN <<>> ELSE <<Min(S)>> \o SortedSeq(S \ {Min(S)})

Take(s, n) == SubSeq(s, 1, IF n < Len(s) THEN n ELSE Len(s))
Drop(s, n) == SubSeq(s, (IF n < Len(s) THEN n ELSE Len(s)) + 1, Len(s))

Range(s) == {s[i] : i \in 1..Len(s)}

RECURSIVE SeqToBag(_)
SeqToBag(s) == IF s = <<>> THEN EmptyBag ELSE SetToBag({Head(s)}) (+) SeqToBag(Tail(s))

RECURSIVE Flatten(_)
Flatten(ss) == IF ss = <<>> THEN <<>> ELSE Head(ss) \o Flatten(Tail(ss))

(***************************************************************************)
(* schemas/filters.py : values, columns and SQL clauses                    *)
(***************************************************************************)
\* an optional value: Python None or a value; also a nullable column
NoneV == [some |-> FALSE]
Some(x) == [some |-> TRUE, v |-> x]
is_not_None(x) == x.some

\* the value of a WHERE clause on one row
SqlTrue == "true"
SqlFalse == "false"
SqlNull == "null"
SqlBool(b) == IF b THEN SqlTrue ELSE SqlFalse

\* sa.and_(*clauses)
and_(clauses) ==
    IF \E i \in 1..Len(clauses) : clauses[i] = SqlFalse THEN SqlFalse
    ELSE IF \E i \in 1..Len(clauses) : clauses[i] = SqlNull THEN SqlNull
    ELSE SqlTrue

\* sa.not_(clause)
not_(clause) ==
    IF clause = SqlNull THEN SqlNull ELSE SqlBool(clause = SqlFalse)

\* column.in_(values): an empty list matches no row
in_(column, values) ==
    IF values = <<>> THEN SqlFalse
    ELSE IF ~column.some THEN SqlNull
    ELSE SqlBool(column.v \in Range(values))

\* column.not_in(values)
not_in(column, values) ==
    IF values = <<>> THEN SqlTrue
    ELSE IF ~column.some THEN SqlNull
    ELSE SqlBool(column.v \notin Range(values))

\* column <= value, column >= value
le(column, value) == IF ~column.some THEN SqlNull ELSE SqlBool(column.v <= value)
ge(column, value) == IF ~column.some THEN SqlNull ELSE SqlBool(column.v >= value)

\* column == None, column != None
eq_None(column) == SqlBool(~column.some)
ne_None(column) == SqlBool(column.some)

\* column.is_(value) for a boolean value
is_(column, value) == SqlBool(column.some /\ column.v = value)

\* tags == [], tags != [] on a JSON list column
eq_empty(column) == IF ~column.some THEN SqlNull ELSE SqlBool(column.v = <<>>)
ne_empty(column) == IF ~column.some THEN SqlNull ELSE SqlBool(column.v # <<>>)

\* prefect.orion.utilities.database.json_has_all_keys: the JSON list holds
\* every one of the values
json_has_all_keys(column, values) ==
    IF ~column.some THEN SqlNull
    ELSE SqlBool(Range(values) \subseteq Range(column.v))

\* relationship.has(criterion): a related row exists and meets the criterion
has(related, criterion) == SqlBool(related.some /\ criterion = SqlTrue)

\* "filters.append(clause)" under a condition
Appended(condition, clause) == IF condition THEN <<clause>> ELSE <<>>

\* the state_type column and the name of the related state row
StateType(row) == IF row.state.some THEN Some(row.state.v.type) ELSE NoneV
StateName(row) == IF row.state.some THEN Some(row.state.v.name) ELSE NoneV

\* faulty variant: no filters compile to a clause that is never true
as_sql_filter_none(filters) ==
    IF filters # <<>> THEN and_(filters) ELSE SqlFalse

\* PrefectFilterBaseModel.as_sql_filter, on the list _get_filter_list returns
as_sql_filter(filters) ==
    IF filters # <<>> THEN and_(filters) ELSE and_(<<SqlTrue>>)

(***************************************************************************)
(* The leaf filters: each operator is _get_filter_list of the class,       *)
(* evaluated on one row.                                                   *)
(***************************************************************************)
\* faulty variant: an empty any_ is skipped like an unset one
FlowFilterId_truthy(self, row) ==
    Appended(is_not_None(self.any_) /\ self.any_.v # <<>>, in_(row.id, self.any_.v))

FlowFilterId(self, row) ==
    Appended(is_not_None(self.any_), in_(row.id, self.any_.v))

FlowFilterName(self, row) ==
    Appended(is_not_None(self.any_), in_(row.name, self.any_.v))

\* faulty variant: is_null_ is looked at only when all_ is unset
FlowFilterTags_elif(self, row) ==
    IF is_not_None(self.all_)
    THEN <<json_has_all_keys(row.tags, self.all_.v)>>
    ELSE Appended(is_not_None(self.is_null_),
                  IF self.is_null_.v THEN eq_empty(row.tags) ELSE ne_empty(row.tags))

FlowFilterTags(self, row) ==
    Appended(is_not_None(self.all_), json_has_all_keys(row.tags, self.all_.v))
    \o Appended(is_not_None(self.is_null_),
                IF self.is_null_.v THEN eq_empty(row.tags) ELSE ne_empty(row.tags))

FlowRunFilterId(self, row) ==
    Appended(is_not_None(self.any_), in_(row.id, self.any_.v))
    \o Appended(is_not_None(self.not_any_), not_in(row.id, self.not_any_.v))

FlowRunFilterName(self, row) ==
    Appended(is_not_None(self.any_), in_(row.name, self.any_.v))

FlowRunFilterTags(self, row) ==
    Appended(is_not_None(self.all_), json_has_all_keys(row.tags, self.all_.v))
    \o Appended(is_not_None(self.is_null_),
                IF self.is_null_.v THEN eq_empty(row.tags) ELSE ne_empty(row.tags))

FlowRunFilterDeploymentId(self, row) ==
    Appended(is_not_None(self.any_), in_(row.deployment_id, self.any_.v))
    \o Appended(is_not_None(self.is_null_),
                IF self.is_null_.v THEN eq_None(row.deployment_id)
                ELSE ne_None(row.deployment_id))

FlowRunFilterStateType(self, row) ==
    Appended(is_not_None(self.any_), in_(StateType(row), self.any_.v))

FlowRunFilterStateName(self, row) ==
    Appended(is_not_None(self.any_),
             has(row.state, in_(StateName(row), self.any_.v)))

FlowRunFilterState(self, row) ==
    (IF is_not_None(self.type) THEN FlowRunFilterStateType(self.type.v, row) ELSE <<>>)
    \o (IF is_not_None(self.name) THEN FlowRunFilterStateName(self.name.v, row) ELSE <<>>)

FlowRunFilterFlowVersion(self, row) ==
    Appended(is_not_None(self.any_), in_(row.flow_version, self.any_.v))

FlowRunFilterStartTime(self, row) ==
    Appended(is_not_None(self.before_), le(row.start_time, self.before_.v))
    \o Appended(is_not_None(self.after_), ge(row.start_time, self.after_.v))
    \o Appended(is_not_None(self.is_null_),
                IF self.is_null_.v THEN eq_None(row.start_time)
                ELSE ne_None(row.start_time))

FlowRunFilterExpectedStartTime(self, row) ==
    Appended(is_not_None(self.before_), le(row.expected_start_time, self.before_.v))
    \o Appended(is_not_None(self.after_), ge(row.expected_start_time, self.after_.v))

FlowRunFilterNextScheduledStartTime(self, row) ==
    Appended(is_not_None(self.before_),
             le(row.next_scheduled_start_time, self.before_.v))
    \o Appended(is_not_None(self.after_),
                ge(row.next_scheduled_start_time, self.after_.v))

FlowRunFilterParentTaskRunId(self, row) ==
    Appended(is_not_None(self.any_), in_(row.parent_task_run_id, self.any_.v))
    \o Appended(is_not_None(self.is_null_),
                IF self.is_null_.v THEN eq_None(row.parent_task_run_id)
                ELSE ne_None(row.parent_task_run_id))

TaskRunFilterId(self, row) ==
    Appended(is_not_None(self.any_), in_(row.id, self.any_.v))

TaskRunFilterName(self, row) ==
    Appended(is_not_None(self.any_), in_(row.name, self.any_.v))

TaskRunFilterTags(self, row) ==
    Appended(is_not_None(self.all_), json_has_all_keys(row.tags, self.all_.v))
    \o Appended(is_not_None(self.is_null_),
                IF self.is_null_.v THEN eq_empty(row.tags) ELSE ne_empty(row.tags))

TaskRunFilterStateType(self, row) ==
    Appended(is_not_None(self.any_), in_(StateType(row), self.any_.v))

TaskRunFilterStateName(self, row) ==
    Appended(is_not_None(self.any_),
             has(row.state, in_(StateName(row), self.any_.v)))

TaskRunFilterState(self, row) ==
    (IF is_not_None(self.type) THEN TaskRunFilterStateType(self.type.v, row) ELSE <<>>)
    \o (IF is_not_None(self.name) THEN TaskRunFilterStateName(self.name.v, row) ELSE <<>>)

TaskRunFilterSubFlowRuns(self, row) ==
    IF is_not_None(self.exists_) /\ self.exists_.v = TRUE
    THEN <<has(row.subflow_run, SqlTrue)>>
    ELSE IF is_not_None(self.exists_) /\ self.exists_.v = FALSE
         THEN <<not_(has(row.subflow_run, SqlTrue))>>
         ELSE <<>>

TaskRunFilterStartTime(self, row) ==
    Appended(is_not_None(self.before_), le(row.start_time, self.before_.v))
    \o Appended(is_not_None(self.after_), ge(row.start_time, self.after_.v))
    \o Appended(is_not_None(self.is_null_),
                IF self.is_null_.v THEN eq_None(row.start_time)
                ELSE ne_None(row.start_time))

DeploymentFilterId(self, row) ==
    Appended(is_not_None(self.any_), in_(row.id, self.any_.v))

DeploymentFilterName(self, row) ==
    Appended(is_not_None(self.any_), in_(row.name, self.any_.v))

DeploymentFilterIsScheduleActive(self, row) ==
    Appended(is_not_None(self.eq_), is_(row.is_schedule_active, self.eq_.v))

DeploymentFilterTags(self, row) ==
    Appended(is_not_None(self.all_), json_has_all_keys(row.tags, self.all_.v))
    \o Appended(is_not_None(self.is_null_),
                IF self.is_null_.v THEN eq_empty(row.tags) ELSE ne_empty(row.tags))

(***************************************************************************)
(* The composite filters.                                                  *)
(***************************************************************************)
\* "if self.slot is not None: filters.append(self.slot.as_sql_filter())"
Slot(slot, filters) == IF is_not_None(slot) THEN <<as_sql_filter(filters)>> ELSE <<>>

FlowFilter(self, row) ==
    Slot(self.id, FlowFilterId(self.id.v, row))
    \o Slot(self.name, FlowFilterName(self.name.v, row))
    \o Slot(self.tags, FlowFilterTags(self.tags.v, row))

\* faulty variant: the state slot is visited only when flow_version is absent
FlowRunFilter_elif(self, row) ==
    Slot(self.id, FlowRunFilterId(self.id.v, row))
    \o Slot(self.name, FlowRunFilterName(self.name.v, row))
    \o Slot(self.tags, FlowRunFilterTags(self.tags.v, row))
    \o Slot(self.deployment_id, FlowRunFilterDeploymentId(self.deployment_id.v, row))
    \o (IF is_not_None(self.flow_version)
        THEN Slot(self.flow_version, FlowRunFilterFlowVersion(self.flow_version.v, row))
        ELSE Slot(self.state, FlowRunFilterState(self.state.v, row)))
    \o Slot(self.start_time, FlowRunFilterStartTime(self.start_time.v, row))
    \o Slot(self.expected_start_time,
            FlowRunFilterExpectedStartTime(self.expected_start_time.v, row))
    \o Slot(self.next_scheduled_start_time,
            FlowRunFilterNextScheduledStartTime(self.next_scheduled_start_time.v, row))
    \o Slot(self.parent_task_run_id,
            FlowRunFilterParentTaskRunId(self.parent_task_run_id.v, row))

FlowRunFilter(self, row) ==
    Slot(self.id, FlowRunFilterId(self.id.v, row))
    \o Slot(self.name, FlowRunFilterName(self.name.v, row))
    \o Slot(self.tags, FlowRunFilterTags(self.tags.v, row))
    \o Slot(self.deployment_id, FlowRunFilterDeploymentId(self.deployment_id.v, row))
    \o Slot(self.flow_version, FlowRunFilterFlowVersion(self.flow_version.v, row))
    \o Slot(self.state, FlowRunFilterState(self.state.v, row))
    \o Slot(self.start_time, FlowRunFilterStartTime(self.start_time.v, row))
    \o Slot(self.expected_start_time,
            FlowRunFilterExpectedStartTime(self.expected_start_time.v, row))
    \o Slot(self.next_scheduled_start_time,
            FlowRunFilterNextScheduledStartTime(self.next_scheduled_start_time.v, row))
    \o Slot(self.parent_task_run_id,
            FlowRunFilterParentTaskRunId(self.parent_task_run_id.v, row))

TaskRunFilter(self, row) ==
    Slot(self.id, TaskRunFilterId(self.id.v, row))
    \o Slot(self.name, TaskRunFilterName(self.name.v, row))
    \o Slot(self.tags, TaskRunFilterTags(self.tags.v, row))
    \o Slot(self.state, TaskRunFilterState(self.state.v, row))
    \o Slot(self.start_time, TaskRunFilterStartTime(self.start_time.v, row))
    \o Slot(self.subflow_runs, TaskRunFilterSubFlowRuns(self.subflow_runs.v, row))

DeploymentFilter(self, row) ==
    Slot(self.id, DeploymentFilterId(self.id.v, row))
    \o Slot(self.name, DeploymentFilterName(self.name.v, row))
    \o Slot(self.is_schedule_active,
            DeploymentFilterIsScheduleActive(self.is_schedule_active.v, row))
    \o Slot(self.tags, DeploymentFilterTags(self.tags.v, row))

(***************************************************************************)
(* The deployment table.                                                   *)
(***************************************************************************)
AbsentRow == [present |-> FALSE, is_schedule_active |-> FALSE, schedule |-> None]

\* faulty variant: the WHERE clause does not look at the schedule
HasActiveSchedule_any_schedule(deps, d) ==
    /\ deps[d].present
    /\ deps[d].is_schedule_active = TRUE

\* the WHERE clause of the page query
HasActiveSchedule(deps, d) ==
    /\ deps[d].present
    /\ deps[d].is_schedule_active = TRUE
    /\ deps[d].schedule # None

ActiveIds(deps) == {d \in DeploymentIds : HasActiveSchedule(deps, d)}

\* "if last_id:" -- an id is a UUID object, which is always truthy; None is not
Truthy(id) == id # None

\* faulty variant: the cursor condition is id >= last_id
PageQuery_inclusive(deps, cursor, limit) ==
    Take(SortedSeq({d \in ActiveIds(deps) : Truthy(cursor) => d >= cursor}), limit)

\* the page query: WHERE ..., ORDER BY id, LIMIT deployment_batch_size,
\* and id > last_id once a cursor is set
PageQuery(deps, cursor, limit) ==
    Take(SortedSeq({d \in ActiveIds(deps) : Truthy(cursor) => d > cursor}), limit)

(***************************************************************************)
(* External collaborators of run_once (models.deployments, collections).   *)
(***************************************************************************)
\* a schedule is a recurrence rule: rule k fires at every multiple of k.
\* The fire times of a rule inside [start, end]
FireTimes(schedule, start, end) ==
    IF schedule = None THEN {}
    ELSE {t \in start..end : t % schedule = 0}

\* models.deployments._generate_scheduled_flow_runs: at most max_count runs of
\* the deployment, all inside the window, earliest first
_generate_scheduled_flow_runs(deps, deployment_id, start_time, end_time, max_count) ==
    LET dates == Take(SortedSeq(FireTimes(deps[deployment_id].schedule,
                                          start_time, end_time)), max_count)
    IN  [i \in 1..Len(dates) |-> <<deployment_id, dates[i]>>]

\* models.deployments._insert_scheduled_flow_runs: the runs of the batch that
\* are actually inserted; a run whose (deployment, time) pair exists already
\* (in the table, or earlier in the same batch) is omitted
RECURSIVE _insert_scheduled_flow_runs(_, _)
_insert_scheduled_flow_runs(runs, existing) ==
    IF runs = <<>> THEN <<>>
    ELSE IF Head(runs) \in existing
         THEN _insert_scheduled_flow_runs(Tail(runs), existing)
         ELSE <<Head(runs)>> \o
              _insert_scheduled_flow_runs(Tail(runs), existing \cup {Head(runs)})

\* prefect.utilities.collections.batched_iterable: consecutive batches of
\* at most size items
RECURSIVE batched_iterable(_, _)
batched_iterable(items, size) ==
    IF items = <<>> THEN <<>>
    ELSE <<Take(items, size)>> \o batched_iterable(Drop(items, size), size)

(***************************************************************************)
(* Scheduler.run_once                                                      *)
(***************************************************************************)
\* visited: the deployments handed to the generator, in call order
\* page_queries: page queries issued; offered, flushes: the bulk insert calls
\* and the flushes of the current page; begin_runs: the committed table when
\* the invocation began; stable: deployments that had an active schedule at
\* the start and were not touched since; changes: how often the table
\* was touched since; failed_at: where an error ended the invocation;
\* repeat: the previous invocation committed and read the same now;
\* eligible: deployments that had an active schedule at some moment since
\* the start
NoHist == [visited |-> <<>>, page_queries |-> 0, offered |-> <<>>, flushes |-> 0,
           begin_runs |-> EmptyBag, discarded |-> 0, outcome |-> "none",
           stable |-> {}, changes |-> 0, repeat |-> FALSE, failed_at |-> "none",
           eligible |-> {}]

\* the rows a transaction sees: committed rows and its own writes
Visible(p) == BagToSet(flow_runs) \cup BagToSet(session[p])

\* rows written by the open transactions of the other processes
HeldByOthers(p) == UNION {BagToSet(session[q]) : q \in Procs \ {p}}

\* lines 22-27: capture now, open the session and the transaction
Begin(p) ==
    /\ pc[p] = "idle"
    /\ now' = [now EXCEPT ![p] = clock]
    /\ total_inserted_runs' = [total_inserted_runs EXCEPT ![p] = 0]
    /\ session' = [session EXCEPT ![p] = EmptyBag]
    /\ last_id' = [last_id EXCEPT ![p] = None]
    /\ page' = [page EXCEPT ![p] = <<>>]
    /\ next_dep' = [next_dep EXCEPT ![p] = 1]
    /\ all_runs' = [all_runs EXCEPT ![p] = <<>>]
    /\ batches' = [batches EXCEPT ![p] = <<>>]
    /\ hist' = [hist EXCEPT ![p] =
                    [NoHist EXCEPT !.begin_runs = flow_runs,
                                   !.stable = ActiveIds(deployments),
                                   !.eligible = ActiveIds(deployments),
                                   !.repeat = /\ hist[p].outcome = "committed"
                                              /\ now[p] = clock]]
    /\ pc' = [pc EXCEPT ![p] = "query"]
    /\ UNCHANGED <<filterVars, deployments, flow_runs, clock, deployment_batch_size, max_runs,
                   max_scheduled_time, scheduler_insert_batch_size>>

\* faulty variant: all the runs of the page go into one bulk insert
RunsToBatches_single(runs, size) == <<runs>>

\* the batch loop of lines 59-61 over what lines 47-56 collected
RunsToBatches(runs, size) == batched_iterable(runs, size)

\* where the pass goes once all_runs of the page is complete
AfterGenerate(runs) == IF runs = <<>> THEN "page_end" ELSE "insert"

\* lines 29-47: one page query
QueryPage(p) ==
    /\ pc[p] = "query"
    /\ LET result == PageQuery(deployments, last_id[p], deployment_batch_size)
       IN  /\ page' = [page EXCEPT ![p] = result]
           /\ pc' = [pc EXCEPT ![p] =
                        IF result = <<>> THEN "page_end" ELSE "generate"]
    /\ next_dep' = [next_dep EXCEPT ![p] = 1]
    /\ all_runs' = [all_runs EXCEPT ![p] = <<>>]
    /\ batches' = [batches EXCEPT ![p] = <<>>]
    /\ hist' = [hist EXCEPT ![p].page_queries = @ + 1,
                            ![p].offered = <<>>,
                            ![p].flushes = 0]
    /\ UNCHANGED <<filterVars, deployments, flow_runs, clock, deployment_batch_size, max_runs,
                   max_scheduled_time, scheduler_insert_batch_size, now,
                   total_inserted_runs, session, last_id>>

\* faulty variant: the generator is asked for one run more than max_runs
GeneratedRuns_uncapped(p, deployment_id) ==
    _generate_scheduled_flow_runs(deployments, deployment_id, now[p],
                                  now[p] + max_scheduled_time, max_runs + 1)

\* lines 49-55: the generator call for one deployment of the page
GeneratedRuns(p, deployment_id) ==
    _generate_scheduled_flow_runs(deployments, deployment_id, now[p],
                                  now[p] + max_scheduled_time, max_runs)

\* lines 48-56: one iteration of the loop over the page
GenerateRuns(p) ==
    /\ pc[p] = "generate"
    /\ next_dep[p] <= Len(page[p])
    /\ LET d == page[p][next_dep[p]]
           collected == all_runs[p] \o GeneratedRuns(p, d)
           last == next_dep[p] = Len(page[p])
       IN  /\ all_runs' = [all_runs EXCEPT ![p] = collected]
           /\ hist' = [hist EXCEPT ![p].visited = Append(@, d)]
           /\ batches' = [batches EXCEPT ![p] =
                             IF last
                             THEN RunsToBatches(collected, scheduler_insert_batch_size)
                             ELSE <<>>]
           /\ pc' = [pc EXCEPT ![p] = IF last THEN AfterGenerate(collected)
                                             ELSE "generate"]
    /\ next_dep' = [next_dep EXCEPT ![p] = @ + 1]
    /\ UNCHANGED <<filterVars, deployments, flow_runs, clock, deployment_batch_size, max_runs,
                   max_scheduled_time, scheduler_insert_batch_size, now,
                   total_inserted_runs, session, last_id, page>>

\* faulty variant: the batch is added to the session as it is
InsertedRuns_all(batch, existing) == batch

\* lines 62-66: what one bulk insert call adds to the transaction
InsertedRuns(batch, existing) == _insert_scheduled_flow_runs(batch, existing)

\* faulty variant: the runs offered are counted, not the runs inserted
CountInserted_offered(batch, inserted_runs) == Len(batch)

\* line 68: what one batch adds to total_inserted_runs
CountInserted(batch, inserted_runs) == Len(inserted_runs)

\* line 67: session.flush() sends the pending rows to the database inside the
\* open transaction; the committed table is what it was
FlushedTable(committed, pending) == committed

\* lines 59-68: one iteration of the loop over the batches.  The unique index
\* makes the insert wait while another open transaction holds one of the pairs.
InsertBatch(p) ==
    /\ pc[p] = "insert"
    /\ batches[p] # <<>>
    /\ LET batch == Head(batches[p])
           inserted_runs == InsertedRuns(batch, Visible(p))
           written == session[p] (+) SeqToBag(inserted_runs)
       IN  /\ Range(batch) \cap HeldByOthers(p) = {}
           /\ session' = [session EXCEPT ![p] = written]
           /\ flow_runs' = FlushedTable(flow_runs, written)
           /\ total_inserted_runs' = [total_inserted_runs EXCEPT ![p] =
                                         @ + CountInserted(batch, inserted_runs)]
           /\ hist' = [hist EXCEPT ![p].offered = Append(@, batch),
                                   ![p].flushes = @ + 1]
    /\ batches' = [batches EXCEPT ![p] = Tail(@)]
    /\ pc' = [pc EXCEPT ![p] = IF Tail(batches[p]) = <<>> THEN "page_end" ELSE "insert"]
    /\ UNCHANGED <<filterVars, deployments, clock, deployment_batch_size, max_runs,
                   max_scheduled_time, scheduler_insert_batch_size, now,
                   last_id, page, next_dep, all_runs>>

\* faulty variant: only an empty page ends the loop
IsLastPage_empty(deps, limit) == Len(deps) = 0

\* line 71: the page was the last one
IsLastPage(deps, limit) == Len(deps) < limit

\* faulty variant: the cursor is the first id of the page
NextCursor_first(deps) == deps[1]

\* line 75: the cursor for the next page
NextCursor(deps) == deps[Len(deps)]

\* lines 70-75: leave the loop or move the cursor
PageEnd(p) ==
    /\ pc[p] = "page_end"
    /\ IF IsLastPage(page[p], deployment_batch_size)
       THEN /\ pc' = [pc EXCEPT ![p] = "commit"]
            /\ UNCHANGED last_id
       ELSE /\ pc' = [pc EXCEPT ![p] = "query"]
            /\ last_id' = [last_id EXCEPT ![p] = NextCursor(page[p])]
    /\ UNCHANGED <<filterVars, deployments, flow_runs, clock, deployment_batch_size, max_runs,
                   max_scheduled_time, scheduler_insert_batch_size, now,
                   total_inserted_runs, session, page, next_dep, all_runs,
                   batches, hist>>

\* the table after the transaction of line 26 ends
CommittedTable(committed, pending) == committed (+) pending

\* faulty variant: the rows written so far stay when the block is left by an error
RolledBackTable_keeps(committed, pending) == committed (+) pending

RolledBackTable(committed, pending) == committed

\* what is left of an invocation once run_once has returned or raised: its
\* locals are gone, its outcome is remembered
Ended(h, how, at, pending) ==
    [NoHist EXCEPT !.outcome = how,
                   !.failed_at = IF how = "failed" THEN at ELSE "none",
                   !.begin_runs = h.begin_runs,
                   !.page_queries = h.page_queries,
                   !.repeat = h.repeat,
                   !.discarded = IF how = "failed" THEN BagCardinality(pending) ELSE 0]

Return(p, how) ==
    /\ session' = [session EXCEPT ![p] = EmptyBag]
    /\ hist' = [hist EXCEPT ![p] = Ended(@, how, pc[p], session[p])]
    /\ pc' = [pc EXCEPT ![p] = "idle"]
    /\ last_id' = [last_id EXCEPT ![p] = None]
    /\ page' = [page EXCEPT ![p] = <<>>]
    /\ next_dep' = [next_dep EXCEPT ![p] = 1]
    /\ all_runs' = [all_runs EXCEPT ![p] = <<>>]
    /\ batches' = [batches EXCEPT ![p] = <<>>]
    /\ UNCHANGED <<filterVars, deployments, clock, deployment_batch_size, max_runs,
                   max_scheduled_time, scheduler_insert_batch_size, now,
                   total_inserted_runs>>

\* lines 26 and 77: the transaction block ends normally and commits
Commit(p) ==
    /\ pc[p] = "commit"
    /\ flow_runs' = CommittedTable(flow_runs, session[p])
    /\ Return(p, "committed")

\* lines 25-26: the generator or the insert raises; the exception leaves the
\* transaction block, which rolls back, and run_once
Fail(p) ==
    /\ pc[p] \in {"generate", "insert"}
    /\ flow_runs' = RolledBackTable(flow_runs, session[p])
    /\ Return(p, "failed")

\* time passes
Tick ==
    /\ clock < MaxClock
    /\ clock' = clock + 1
    /\ UNCHANGED <<filterVars, deployments, flow_runs, deployment_batch_size, max_runs,
                   max_scheduled_time, scheduler_insert_batch_size, pc, now,
                   total_inserted_runs, session, last_id, page, next_dep,
                   all_runs, batches, hist>>

\* the rows another client can turn a deployment row into: it deletes the
\* deployment, creates it with an active schedule, or flips is_schedule_active
ChangedRows(row) ==
    IF ~row.present
    THEN {[present |-> TRUE, is_schedule_active |-> TRUE, schedule |-> 1]}
    ELSE {AbsentRow, [row EXCEPT !.is_schedule_active = ~@]}

\* the table with row d replaced, as the running invocations remember it
Changed(d, row) ==
    /\ deployments' = [deployments EXCEPT ![d] = row]
    /\ hist' = [p \in Procs |->
                   IF pc[p] \in {"idle", "off"} THEN hist[p]
                   ELSE [hist[p] EXCEPT
                            !.stable = @ \ {d},
                            !.changes = @ + 1,
                            !.eligible = @ \cup (ActiveIds(deployments') \cap {d})]]
    /\ UNCHANGED <<filterVars, flow_runs, clock, deployment_batch_size, max_runs,
                   max_scheduled_time, scheduler_insert_batch_size, pc, now,
                   total_inserted_runs, session, last_id, page, next_dep,
                   all_runs, batches>>

\* another client of the database inserts, deletes or updates a deployment
\* between two page queries of a running invocation
ChangeDeployment(d) ==
    /\ \E p \in Procs : pc[p] = "query" /\ hist[p].page_queries > 0
    /\ \A p \in Procs : hist[p].changes < MaxChanges
    /\ \E row \in ChangedRows(deployments[d]) : Changed(d, row)

\* the same between the page query and a generator call of its page
ChangeDuringPage(d) ==
    /\ \E p \in Procs : pc[p] = "generate"
    /\ \A p \in Procs : hist[p].changes < MaxChanges
    /\ \E row \in ChangedRows(deployments[d]) : Changed(d, row)

Step(p) ==
    \/ Begin(p)
    \/ QueryPage(p)
    \/ GenerateRuns(p)
    \/ InsertBatch(p)
    \/ PageEnd(p)
    \/ Commit(p)
    \/ Fail(p)

InitSettings ==
    /\ deployment_batch_size \in 1..MaxBatchSize
    /\ scheduler_insert_batch_size \in 1..MaxBatchSize
    /\ max_runs \in 1..MaxRuns
    /\ max_scheduled_time = MaxScheduledTime

InitProcs(running) ==
    /\ pc = [p \in Procs |-> IF p \in running THEN "idle" ELSE "off"]
    /\ now = [p \in Procs |-> 0]
    /\ total_inserted_runs = [p \in Procs |-> 0]
    /\ session = [p \in Procs |-> EmptyBag]
    /\ last_id = [p \in Procs |-> None]
    /\ page = [p \in Procs |-> <<>>]
    /\ next_dep = [p \in Procs |-> 1]
    /\ all_runs = [p \in Procs |-> <<>>]
    /\ batches = [p \in Procs |-> <<>>]
    /\ hist = [p \in Procs |-> NoHist]

\* no filter is compiled
NoFilter ==
    /\ filter_class = "none"
    /\ filter = NoneV
    /\ entity = NoneV
    /\ compiled = "pending"
    /\ from_criteria = FALSE

\* the rows of the initial table: a deployment with an active schedule, one
\* whose schedule is switched off, one that is active without a schedule
InitRows ==
    {[present |-> TRUE, is_schedule_active |-> TRUE, schedule |-> 1],
     [present |-> TRUE, is_schedule_active |-> FALSE, schedule |-> 1],
     [present |-> TRUE, is_schedule_active |-> TRUE, schedule |-> None]}

\* one scheduler service over a deployment table nobody changes
Init ==
    /\ deployments \in [DeploymentIds -> InitRows]
    /\ flow_runs = EmptyBag
    /\ clock = 0
    /\ InitSettings
    /\ InitProcs({1})
    /\ NoFilter

Next ==
    \/ \E p \in Procs : Step(p)
    \/ Tick

Spec == Init /\ [][Next]_vars

\* two scheduler services on the same database
InitConcurrent ==
    /\ \E n \in 1..SharedDeployments :
           deployments = [d \in DeploymentIds |->
                             [present |-> TRUE, is_schedule_active |-> d <= n,
                              schedule |-> 1]]
    /\ flow_runs = EmptyBag
    /\ clock = 0
    /\ deployment_batch_size \in 1..MaxBatchSize
    /\ scheduler_insert_batch_size \in 1..MaxBatchSize
    /\ max_runs = MaxRuns
    /\ max_scheduled_time = MaxScheduledTime
    /\ InitProcs({1, 2})
    /\ NoFilter

SpecConcurrent == InitConcurrent /\ [][Next]_vars

\* one scheduler service while other clients change the deployment table
InitChanging ==
    /\ deployments \in [DeploymentIds ->
                            {AbsentRow} \cup
                            [present : {TRUE}, is_schedule_active : BOOLEAN,
                             schedule : {1}]]
    /\ flow_runs = EmptyBag
    /\ clock = 0
    /\ deployment_batch_size \in 1..MaxBatchSize
    /\ scheduler_insert_batch_size = MaxBatchSize
    /\ max_runs = 1
    /\ max_scheduled_time = MaxScheduledTime
    /\ InitProcs({1})
    /\ NoFilter

NextChanging ==
    \/ \E p \in Procs : Step(p)
    \/ \E d \in DeploymentIds : ChangeDeployment(d)

SpecChanging == InitChanging /\ [][NextChanging]_vars

\* a pass during which time passes and the deployment table is changed at any
\* moment; the table holds deployments with an active schedule, with a
\* schedule that is switched off, and with no schedule
InitLongPass ==
    /\ deployments \in [DeploymentIds ->
                            {AbsentRow} \cup
                            [present : {TRUE}, is_schedule_active : BOOLEAN,
                             schedule : {1}] \cup
                            [present : {TRUE}, is_schedule_active : {TRUE},
                             schedule : {None}]]
    /\ flow_runs = EmptyBag
    /\ clock = 0
    /\ deployment_batch_size = MaxBatchSize
    /\ scheduler_insert_batch_size = MaxBatchSize
    /\ max_runs = 1
    /\ max_scheduled_time = MaxScheduledTime
    /\ InitProcs({1})
    /\ NoFilter

\* run_once is invoked once
BeginOnce(p) == hist[p].outcome = "none" /\ Begin(p)

\* one invocation of run_once is followed from its start to its end
NextLongPass ==
    \/ \E p \in Procs :
          \/ BeginOnce(p)
          \/ QueryPage(p)
          \/ GenerateRuns(p)
          \/ InsertBatch(p)
          \/ PageEnd(p)
          \/ Commit(p)
          \/ Fail(p)
    \/ \E d \in DeploymentIds : ChangeDeployment(d)
    \/ \E d \in DeploymentIds : ChangeDuringPage(d)
    \/ Tick

SpecLongPass == InitLongPass /\ [][NextLongPass]_vars

(***************************************************************************)
(* Filter objects and rows the filters are compiled for.                   *)
(***************************************************************************)
UUIDs == {1, 2}
Names == {"a", "b"}
TagNames == {"t1", "t2"}
Versions == {"v1", "v2"}
StateTypes == {"SCHEDULED", "RUNNING"}
StateNames == {"Scheduled", "Running"}
Timestamps == {1, 2, 3}
States == {[type |-> "SCHEDULED", name |-> "Scheduled"],
           [type |-> "RUNNING", name |-> "Running"]}
RowTags == {<<>>, <<"t1">>, <<"t2", "t1">>}

Lists(S, n) == UNION {[1..k -> S] : k \in 0..n}
Opt(S) == {NoneV} \cup {Some(x) : x \in S}

LeafClasses ==
    {"FlowFilterId", "FlowFilterName", "FlowFilterTags",
     "FlowRunFilterId", "FlowRunFilterName", "FlowRunFilterTags",
     "FlowRunFilterDeploymentId", "FlowRunFilterStateType",
     "FlowRunFilterStateName", "FlowRunFilterState", "FlowRunFilterFlowVersion",
     "FlowRunFilterStartTime", "FlowRunFilterExpectedStartTime",
     "FlowRunFilterNextScheduledStartTime", "FlowRunFilterParentTaskRunId",
     "TaskRunFilterId", "TaskRunFilterName", "TaskRunFilterTags",
     "TaskRunFilterStateType", "TaskRunFilterStateName", "TaskRunFilterState",
     "TaskRunFilterSubFlowRuns", "TaskRunFilterStartTime",
     "DeploymentFilterId", "DeploymentFilterName",
     "DeploymentFilterIsScheduleActive", "DeploymentFilterTags"}

CompositeClasses == {"FlowFilter", "FlowRunFilter", "TaskRunFilter", "DeploymentFilter"}

FilterClasses == LeafClasses \cup CompositeClasses

\* the leaf classes whose only operator is any_, and the type of its items
AnyOnlyItems(cls) ==
    CASE cls \in {"FlowFilterId", "TaskRunFilterId", "DeploymentFilterId"} -> UUIDs
      [] cls \in {"FlowFilterName", "FlowRunFilterName", "TaskRunFilterName",
                  "DeploymentFilterName"} -> Names
      [] cls \in {"FlowRunFilterStateType", "TaskRunFilterStateType"} -> StateTypes
      [] cls \in {"FlowRunFilterStateName", "TaskRunFilterStateName"} -> StateNames
      [] cls = "FlowRunFilterFlowVersion" -> Versions

AnyOnlyClasses ==
    {"FlowFilterId", "TaskRunFilterId", "DeploymentFilterId", "FlowFilterName",
     "FlowRunFilterName", "TaskRunFilterName", "DeploymentFilterName",
     "FlowRunFilterStateType", "TaskRunFilterStateType", "FlowRunFilterStateName",
     "TaskRunFilterStateName", "FlowRunFilterFlowVersion"}

\* the objects of a leaf class
LeafObjects(cls) ==
    CASE cls \in AnyOnlyClasses ->
            [any_ : Opt(Lists(AnyOnlyItems(cls), MaxListLen))]
      [] cls \in {"FlowFilterTags", "FlowRunFilterTags", "TaskRunFilterTags",
                  "DeploymentFilterTags"} ->
            [all_ : Opt(Lists(TagNames, MaxTags)), is_null_ : Opt(BOOLEAN)]
      [] cls = "FlowRunFilterId" ->
            [any_ : Opt(Lists(UUIDs, MaxListLen)),
             not_any_ : Opt(Lists(UUIDs, MaxListLen))]
      [] cls \in {"FlowRunFilterDeploymentId", "FlowRunFilterParentTaskRunId"} ->
            [any_ : Opt(Lists(UUIDs, MaxListLen)), is_null_ : Opt(BOOLEAN)]
      [] cls = "FlowRunFilterState" ->
            [type : Opt([any_ : Opt(Lists(StateTypes, MaxListLen))]),
             name : Opt([any_ : Opt(Lists(StateNames, MaxListLen))])]
      [] cls = "TaskRunFilterState" ->
            [type : Opt([any_ : Opt(Lists(StateTypes, MaxListLen))]),
             name : Opt([any_ : Opt(Lists(StateNames, MaxListLen))])]
      [] cls \in {"FlowRunFilterStartTime", "TaskRunFilterStartTime"} ->
            [before_ : Opt(Timestamps), after_ : Opt(Timestamps),
             is_null_ : Opt(BOOLEAN)]
      [] cls \in {"FlowRunFilterExpectedStartTime",
                  "FlowRunFilterNextScheduledStartTime"} ->
            [before_ : Opt(Timestamps), after_ : Opt(Timestamps)]
      [] cls = "TaskRunFilterSubFlowRuns" -> [exists_ : Opt(BOOLEAN)]
      [] cls = "DeploymentFilterIsScheduleActive" -> [eq_ : Opt(BOOLEAN)]

\* the slots of a composite class and the class of each slot
FlowFilterSlots == {"id", "name", "tags"}
FlowRunFilterSlots ==
    {"id", "name", "tags", "deployment_id", "state", "flow_version", "start_time",
     "expected_start_time", "next_scheduled_start_time", "parent_task_run_id"}
TaskRunFilterSlots == {"id", "name", "tags", "state", "start_time", "subflow_runs"}
DeploymentFilterSlots == {"id", "name", "is_schedule_active", "tags"}

SlotsOf(cls) ==
    CASE cls = "FlowFilter" -> FlowFilterSlots
      [] cls = "FlowRunFilter" -> FlowRunFilterSlots
      [] cls = "TaskRunFilter" -> TaskRunFilterSlots
      [] cls = "DeploymentFilter" -> DeploymentFilterSlots

\* a slot of an object with the slots in S set: any object of the slot's class
SlotObjects(slot, S, cls) ==
    IF slot \in S THEN {Some(x) : x \in LeafObjects(cls)} ELSE {NoneV}

\* the sets of slots that are set in the objects drawn
SlotChoices(slots) == {S \in SUBSET slots : Cardinality(S) <= MaxSlots}

FlowFilterObjects ==
    UNION {[id : SlotObjects("id", S, "FlowFilterId"),
            name : SlotObjects("name", S, "FlowFilterName"),
            tags : SlotObjects("tags", S, "FlowFilterTags")] :
           S \in SlotChoices(FlowFilterSlots)}

FlowRunFilterObjects ==
    UNION {[id : SlotObjects("id", S, "FlowRunFilterId"),
            name : SlotObjects("name", S, "FlowRunFilterName"),
            tags : SlotObjects("tags", S, "FlowRunFilterTags"),
            deployment_id : SlotObjects("deployment_id", S, "FlowRunFilterDeploymentId"),
            state : SlotObjects("state", S, "FlowRunFilterState"),
            flow_version : SlotObjects("flow_version", S, "FlowRunFilterFlowVersion"),
            start_time : SlotObjects("start_time", S, "FlowRunFilterStartTime"),
            expected_start_time :
                SlotObjects("expected_start_time", S, "FlowRunFilterExpectedStartTime"),
            next_scheduled_start_time :
                SlotObjects("next_scheduled_start_time", S,
                            "FlowRunFilterNextScheduledStartTime"),
            parent_task_run_id :
                SlotObjects("parent_task_run_id", S, "FlowRunFilterParentTaskRunId")] :
           S \in SlotChoices(FlowRunFilterSlots)}

TaskRunFilterObjects ==
    UNION {[id : SlotObjects("id", S, "TaskRunFilterId"),
            name : SlotObjects("name", S, "TaskRunFilterName"),
            tags : SlotObjects("tags", S, "TaskRunFilterTags"),
            state : SlotObjects("state", S, "TaskRunFilterState"),
            start_time : SlotObjects("start_time", S, "TaskRunFilterStartTime"),
            subflow_runs : SlotObjects("subflow_runs", S, "TaskRunFilterSubFlowRuns")] :
           S \in SlotChoices(TaskRunFilterSlots)}

DeploymentFilterObjects ==
    UNION {[id : SlotObjects("id", S, "DeploymentFilterId"),
            name : SlotObjects("name", S, "DeploymentFilterName"),
            is_schedule_active :
                SlotObjects("is_schedule_active", S, "DeploymentFilterIsScheduleActive"),
            tags : SlotObjects("tags", S, "DeploymentFilterTags")] :
           S \in SlotChoices(DeploymentFilterSlots)}

FilterObjects(cls) ==
    CASE cls = "FlowFilter" -> FlowFilterObjects
      [] cls = "FlowRunFilter" -> FlowRunFilterObjects
      [] cls = "TaskRunFilter" -> TaskRunFilterObjects
      [] cls = "DeploymentFilter" -> DeploymentFilterObjects
      [] OTHER -> LeafObjects(cls)

\* BaseFilterCriteria(): every field is built by its default_factory
BaseFilterCriteria ==
    [flow_filter |-> [s \in FlowFilterSlots |-> NoneV],
     flow_run_filter |-> [s \in FlowRunFilterSlots |-> NoneV],
     task_run_filter |-> [s \in TaskRunFilterSlots |-> NoneV],
     deployment_filter |-> [s \in DeploymentFilterSlots |-> NoneV]]

CriteriaFilter(cls) ==
    CASE cls = "FlowFilter" -> BaseFilterCriteria.flow_filter
      [] cls = "FlowRunFilter" -> BaseFilterCriteria.flow_run_filter
      [] cls = "TaskRunFilter" -> BaseFilterCriteria.task_run_filter
      [] cls = "DeploymentFilter" -> BaseFilterCriteria.deployment_filter

\* the table a filter class is about
Table(cls) ==
    CASE cls \in {"FlowFilter", "FlowFilterId", "FlowFilterName", "FlowFilterTags"} -> "Flow"
      [] cls \in {"DeploymentFilter", "DeploymentFilterId", "DeploymentFilterName",
                  "DeploymentFilterIsScheduleActive", "DeploymentFilterTags"} -> "Deployment"
      [] cls \in {"TaskRunFilter", "TaskRunFilterId", "TaskRunFilterName",
                  "TaskRunFilterTags", "TaskRunFilterStateType",
                  "TaskRunFilterStateName", "TaskRunFilterState",
                  "TaskRunFilterSubFlowRuns", "TaskRunFilterStartTime"} -> "TaskRun"
      [] OTHER -> "FlowRun"

\* the column a leaf class reads
ColumnOf(cls) ==
    CASE cls \in {"FlowFilterId", "FlowRunFilterId", "TaskRunFilterId",
                  "DeploymentFilterId"} -> "id"
      [] cls \in {"FlowFilterName", "FlowRunFilterName", "TaskRunFilterName",
                  "DeploymentFilterName"} -> "name"
      [] cls \in {"FlowFilterTags", "FlowRunFilterTags", "TaskRunFilterTags",
                  "DeploymentFilterTags"} -> "tags"
      [] cls = "FlowRunFilterDeploymentId" -> "deployment_id"
      [] cls \in {"FlowRunFilterStateType", "FlowRunFilterStateName",
                  "FlowRunFilterState", "TaskRunFilterStateType",
                  "TaskRunFilterStateName", "TaskRunFilterState"} -> "state"
      [] cls = "FlowRunFilterFlowVersion" -> "flow_version"
      [] cls \in {"FlowRunFilterStartTime", "TaskRunFilterStartTime"} -> "start_time"
      [] cls = "FlowRunFilterExpectedStartTime" -> "expected_start_time"
      [] cls = "FlowRunFilterNextScheduledStartTime" -> "next_scheduled_start_time"
      [] cls = "FlowRunFilterParentTaskRunId" -> "parent_task_run_id"
      [] cls = "TaskRunFilterSubFlowRuns" -> "subflow_runs"
      [] cls = "DeploymentFilterIsScheduleActive" -> "is_schedule_active"

\* whether an object has an operator or a slot set
AnySet(object) == \E field \in DOMAIN object : object[field].some

\* the columns an object can read: those of its set slots; every column when
\* nothing is set
ColumnsRead(cls, object) ==
    IF ~AnySet(object) THEN {"*"}
    ELSE IF cls \in CompositeClasses
         THEN {slot \in SlotsOf(cls) : object[slot].some}
         ELSE {ColumnOf(cls)}

\* the values of a column in the rows drawn: all of them for a column the
\* filter reads, two of them when the filter reads nothing, else one
Column(name, read, values, nullable) ==
    LET all == {Some(v) : v \in values} \cup (IF nullable THEN {NoneV} ELSE {})
        first == Some(CHOOSE v \in values : TRUE)
    IN  IF name \in read THEN all
        ELSE IF "*" \in read THEN {first, IF nullable THEN NoneV ELSE Some(CHOOSE v \in values : Some(v) # first)}
        ELSE {first}

FlowRows(read) ==
    [id : Column("id", read, UUIDs, FALSE),
     name : Column("name", read, Names, FALSE),
     tags : Column("tags", read, RowTags, FALSE)]

FlowRunRows(read) ==
    [id : Column("id", read, UUIDs, FALSE),
     name : Column("name", read, Names, FALSE),
     tags : Column("tags", read, RowTags, FALSE),
     deployment_id : Column("deployment_id", read, UUIDs, TRUE),
     state : Column("state", read, States, TRUE),
     flow_version : Column("flow_version", read, Versions, TRUE),
     start_time : Column("start_time", read, Timestamps, TRUE),
     expected_start_time : Column("expected_start_time", read, Timestamps, TRUE),
     next_scheduled_start_time :
         Column("next_scheduled_start_time", read, Timestamps, TRUE),
     parent_task_run_id : Column("parent_task_run_id", read, UUIDs, TRUE)]

TaskRunRows(read) ==
    [id : Column("id", read, UUIDs, FALSE),
     name : Column("name", read, Names, FALSE),
     tags : Column("tags", read, RowTags, FALSE),
     state : Column("state", read, States, TRUE),
     start_time : Column("start_time", read, Timestamps, TRUE),
     subflow_run : Column("subflow_runs", read, UUIDs, TRUE)]

DeploymentRows(read) ==
    [id : Column("id", read, UUIDs, FALSE),
     name : Column("name", read, Names, FALSE),
     is_schedule_active : Column("is_schedule_active", read, BOOLEAN, FALSE),
     tags : Column("tags", read, RowTags, FALSE)]

Rows(cls, object) ==
    CASE Table(cls) = "Flow" -> FlowRows(ColumnsRead(cls, object))
      [] Table(cls) = "FlowRun" -> FlowRunRows(ColumnsRead(cls, object))
      [] Table(cls) = "TaskRun" -> TaskRunRows(ColumnsRead(cls, object))
      [] Table(cls) = "Deployment" -> DeploymentRows(ColumnsRead(cls, object))

\* self._get_filter_list() of an object of class cls, on one row
_get_filter_list(cls, self, row) ==
    CASE cls = "FlowFilterId" -> FlowFilterId(self, row)
      [] cls = "FlowFilterName" -> FlowFilterName(self, row)
      [] cls = "FlowFilterTags" -> FlowFilterTags(self, row)
      [] cls = "FlowFilter" -> FlowFilter(self, row)
      [] cls = "FlowRunFilterId" -> FlowRunFilterId(self, row)
      [] cls = "FlowRunFilterName" -> FlowRunFilterName(self, row)
      [] cls = "FlowRunFilterTags" -> FlowRunFilterTags(self, row)
      [] cls = "FlowRunFilterDeploymentId" -> FlowRunFilterDeploymentId(self, row)
      [] cls = "FlowRunFilterStateType" -> FlowRunFilterStateType(self, row)
      [] cls = "FlowRunFilterStateName" -> FlowRunFilterStateName(self, row)
      [] cls = "FlowRunFilterState" -> FlowRunFilterState(self, row)
      [] cls = "FlowRunFilterFlowVersion" -> FlowRunFilterFlowVersion(self, row)
      [] cls = "FlowRunFilterStartTime" -> FlowRunFilterStartTime(self, row)
      [] cls = "FlowRunFilterExpectedStartTime" ->
            FlowRunFilterExpectedStartTime(self, row)
      [] cls = "FlowRunFilterNextScheduledStartTime" ->
            FlowRunFilterNextScheduledStartTime(self, row)
      [] cls = "FlowRunFilterParentTaskRunId" -> FlowRunFilterParentTaskRunId(self, row)
      [] cls = "FlowRunFilter" -> FlowRunFilter(self, row)
      [] cls = "TaskRunFilterId" -> TaskRunFilterId(self, row)
      [] cls = "TaskRunFilterName" -> TaskRunFilterName(self, row)
      [] cls = "TaskRunFilterTags" -> TaskRunFilterTags(self, row)
      [] cls = "TaskRunFilterStateType" -> TaskRunFilterStateType(self, row)
      [] cls = "TaskRunFilterStateName" -> TaskRunFilterStateName(self, row)
      [] cls = "TaskRunFilterState" -> TaskRunFilterState(self, row)
      [] cls = "TaskRunFilterSubFlowRuns" -> TaskRunFilterSubFlowRuns(self, row)
      [] cls = "TaskRunFilterStartTime" -> TaskRunFilterStartTime(self, row)
      [] cls = "TaskRunFilter" -> TaskRunFilter(self, row)
      [] cls = "DeploymentFilterId" -> DeploymentFilterId(self, row)
      [] cls = "DeploymentFilterName" -> DeploymentFilterName(self, row)
      [] cls = "DeploymentFilterIsScheduleActive" ->
            DeploymentFilterIsScheduleActive(self, row)
      [] cls = "DeploymentFilterTags" -> DeploymentFilterTags(self, row)
      [] cls = "DeploymentFilter" -> DeploymentFilter(self, row)

\* the filter is compiled and applied to the row
Compile ==
    /\ compiled = "pending"
    /\ filter_class # "none"
    /\ compiled' = as_sql_filter(_get_filter_list(filter_class, filter, entity))
    /\ UNCHANGED <<filter_class, filter, entity, from_criteria, schedVars>>

\* a filter object, built directly or as a field of BaseFilterCriteria(), and
\* a row of its table; no scheduler runs
InitFilter ==
    /\ \E cls \in FilterClasses :
          /\ filter_class = cls
          /\ \/ from_criteria = FALSE /\ filter \in FilterObjects(cls)
             \/ /\ cls \in CompositeClasses
                /\ from_criteria = TRUE
                /\ filter = CriteriaFilter(cls)
          /\ entity \in Rows(cls, filter)
    /\ compiled = "pending"
    /\ deployments = [d \in DeploymentIds |-> AbsentRow]
    /\ flow_runs = EmptyBag
    /\ clock = 0
    /\ deployment_batch_size = 1
    /\ scheduler_insert_batch_size = 1
    /\ max_runs = 1
    /\ max_scheduled_time = MaxScheduledTime
    /\ InitProcs({})

NextFilter == Compile

SpecFilter == InitFilter /\ [][NextFilter]_vars

(***************************************************************************)
(* Composite filters with several slots set at once.                       *)
(***************************************************************************)
\* the operators of a leaf that hold a list
ListOperators == {"any_", "not_any_", "all_"}

\* a leaf object with at most one operator set, a list operator holding one
\* item
SingleOperator(object) ==
    /\ Cardinality({field \in DOMAIN object : object[field].some}) <= 1
    /\ \A field \in DOMAIN object \cap ListOperators :
           object[field].some => Len(object[field].v) = 1

\* a state filter whose type and name leaves, when present, hold one item
SingleItemState(object) ==
    \A field \in DOMAIN object :
        object[field].some =>
            /\ object[field].v.any_.some
            /\ Len(object[field].v.any_.v) = 1

LeafSamples(cls) ==
    IF cls \in {"FlowRunFilterState", "TaskRunFilterState"}
    THEN {object \in LeafObjects(cls) : SingleItemState(object)}
    ELSE {object \in LeafObjects(cls) : SingleOperator(object)}

SlotSamples(slot, S, cls) ==
    IF slot \in S THEN {Some(x) : x \in LeafSamples(cls)} ELSE {NoneV}

\* the sets of slots set together: one more than in the objects of FilterObjects
SeveralSlots(slots) == {S \in SUBSET slots : Cardinality(S) = MaxSlots + 1}

FlowFilterSamples ==
    UNION {[id : SlotSamples("id", S, "FlowFilterId"),
            name : SlotSamples("name", S, "FlowFilterName"),
            tags : SlotSamples("tags", S, "FlowFilterTags")] :
           S \in SeveralSlots(FlowFilterSlots)}

FlowRunFilterSamples ==
    UNION {[id : SlotSamples("id", S, "FlowRunFilterId"),
            name : SlotSamples("name", S, "FlowRunFilterName"),
            tags : SlotSamples("tags", S, "FlowRunFilterTags"),
            deployment_id : SlotSamples("deployment_id", S, "FlowRunFilterDeploymentId"),
            state : SlotSamples("state", S, "FlowRunFilterState"),
            flow_version : SlotSamples("flow_version", S, "FlowRunFilterFlowVersion"),
            start_time : SlotSamples("start_time", S, "FlowRunFilterStartTime"),
            expected_start_time : SlotSamples("expected_start_time", S, "FlowRunFilterExpectedStartTime"),
            next_scheduled_start_time : SlotSamples("next_scheduled_start_time", S, "FlowRunFilterNextScheduledStartTime"),
            parent_task_run_id : SlotSamples("parent_task_run_id", S, "FlowRunFilterParentTaskRunId")] :
           S \in SeveralSlots(FlowRunFilterSlots)}

TaskRunFilterSamples ==
    UNION {[id : SlotSamples("id", S, "TaskRunFilterId"),
            name : SlotSamples("name", S, "TaskRunFilterName"),
            tags : SlotSamples("tags", S, "TaskRunFilterTags"),
            state : SlotSamples("state", S, "TaskRunFilterState"),
            start_time : SlotSamples("start_time", S, "TaskRunFilterStartTime"),
            subflow_runs : SlotSamples("subflow_runs", S, "TaskRunFilterSubFlowRuns")] :
           S \in SeveralSlots(TaskRunFilterSlots)}

DeploymentFilterSamples ==
    UNION {[id : SlotSamples("id", S, "DeploymentFilterId"),
            name : SlotSamples("name", S, "DeploymentFilterName"),
            is_schedule_active : SlotSamples("is_schedule_active", S, "DeploymentFilterIsScheduleActive"),
            tags : SlotSamples("tags", S, "DeploymentFilterTags")] :
           S \in SeveralSlots(DeploymentFilterSlots)}

FilterSamples(cls) ==
    CASE cls = "FlowFilter" -> FlowFilterSamples
      [] cls = "FlowRunFilter" -> FlowRunFilterSamples
      [] cls = "TaskRunFilter" -> TaskRunFilterSamples
      [] cls = "DeploymentFilter" -> DeploymentFilterSamples

\* a composite filter object with several slots set and a row of its table;
\* no scheduler runs
InitComposite ==
    /\ \E cls \in CompositeClasses :
          /\ filter_class = cls
          /\ from_criteria = FALSE
          /\ filter \in FilterSamples(cls)
          /\ entity \in Rows(cls, filter)
    /\ compiled = "pending"
    /\ deployments = [d \in DeploymentIds |-> AbsentRow]
    /\ flow_runs = EmptyBag
    /\ clock = 0
    /\ deployment_batch_size = 1
    /\ scheduler_insert_batch_size = 1
    /\ max_runs = 1
    /\ max_scheduled_time = MaxScheduledTime
    /\ InitProcs({})

SpecComposite == InitComposite /\ [][NextFilter]_vars

(***************************************************************************)
(* Properties of Scheduler.run_once                                        *)
(***************************************************************************)
InPass(p) == pc[p] \notin {"idle", "off"}

Ascending(s) == \A i \in 1..(Len(s) - 1) : s[i] < s[i + 1]

NoRepeats(s) == \A i, j \in 1..Len(s) : i # j => s[i] # s[j]

CeilDiv(a, b) == (a + b - 1) \div b

RECURSIVE SumCopies(_, _)
SumCopies(B, S) ==
    IF S = {} THEN 0
    ELSE LET x == CHOOSE y \in S : TRUE
         IN  CopiesIn(x, B) + SumCopies(B, S \ {x})

\* the number of rows of bag B that belong to deployment d
RunsFor(B, d) == SumCopies(B, {r \in BagToSet(B) : r[1] = d})

NumActive == Cardinality(ActiveIds(deployments))

\* C1: over a deployment table that does not change, a pass hands the
\* deployments to the generator in strictly ascending id order, and when the
\* pass has left the loop the deployments handed over are exactly those with
\* is_schedule_active = true and a non-null schedule, each once.
C1_EachActiveDeploymentOnceAscending ==
    \A p \in Procs :
        /\ Ascending(hist[p].visited)
        /\ pc[p] = "commit" =>
               /\ Range(hist[p].visited) = ActiveIds(deployments)
               /\ Len(hist[p].visited) = NumActive

C1_Witness ==
    \E p \in Procs :
        /\ pc[p] = "commit"
        /\ hist[p].page_queries >= 2
        /\ Len(hist[p].visited) >= 2
        /\ ActiveIds(deployments) # DeploymentIds

\* C2: whatever the scheduler services do, also with overlapping windows and
\* interleaved steps of two services, the committed flow run table never
\* holds two rows with the same (deployment id, scheduled time).
C2_NoDuplicateRuns ==
    \A r \in BagToSet(flow_runs) : CopiesIn(r, flow_runs) = 1

C2_Witness ==
    \E p, q \in Procs :
        /\ p # q
        /\ pc[p] = "idle" /\ hist[p].outcome = "committed"
        /\ pc[q] = "commit"
        /\ now[q] # now[p]
        /\ hist[q].begin_runs = EmptyBag
        /\ total_inserted_runs[q] > 0
        /\ \E r \in Range(Flatten(hist[q].offered)) :
               BagIn(r, flow_runs) /\ ~BagIn(r, session[q])

\* C3: once the generator or an insert has raised in an invocation, the
\* committed flow run table is what it was when the invocation began, and
\* nothing the invocation wrote is left.
C3_FailedInvocationLeavesNothing ==
    \A p \in Procs :
        (pc[p] = "idle" /\ hist[p].outcome = "failed") =>
            /\ flow_runs = hist[p].begin_runs
            /\ session[p] = EmptyBag

\* the error came in the generator on a later page, after rows of an earlier
\* page were inserted and flushed
C3_Witness ==
    \E p \in Procs :
        /\ pc[p] = "idle"
        /\ hist[p].outcome = "failed"
        /\ hist[p].failed_at = "generate"
        /\ hist[p].page_queries >= 2
        /\ hist[p].discarded > 0

\* C4: the rows an invocation writes for one deployment are never more than
\* max_runs.
C4_AtMostMaxRunsPerDeployment ==
    \A p \in Procs : \A d \in DeploymentIds :
        RunsFor(session[p], d) <= max_runs

\* the schedule has more fire times in the window than max_runs
C4_Witness ==
    \E p \in Procs : \E d \in DeploymentIds :
        /\ pc[p] = "commit"
        /\ RunsFor(session[p], d) = max_runs
        /\ Cardinality(FireTimes(deployments[d].schedule, now[p],
                                  now[p] + max_scheduled_time)) > max_runs

\* C5: an invocation that follows a committed invocation with the same
\* deployments and the same now reports 0 inserted runs and leaves the
\* committed table as it found it.
C5_SecondInvocationInsertsNothing ==
    \A p \in Procs :
        hist[p].repeat =>
            /\ total_inserted_runs[p] = 0
            /\ session[p] = EmptyBag
            /\ flow_runs = hist[p].begin_runs

C5_Witness ==
    \E p \in Procs :
        /\ hist[p].repeat
        /\ pc[p] = "idle"
        /\ hist[p].outcome = "committed"
        /\ flow_runs # EmptyBag

\* C6 as stated: a pass that has left the loop has issued exactly
\* ceil(N / P) page queries.
C6_Original ==
    \A p \in Procs :
        pc[p] = "commit" =>
            hist[p].page_queries = CeilDiv(NumActive, deployment_batch_size)

\* C6, amended: a pass issues floor(N / P) + 1 page queries and never more;
\* it leaves the loop after the first page with fewer than P rows, and goes
\* to another query only after a page of P rows, with last_id the last id of
\* that page.
C6_PageQueries ==
    \A p \in Procs :
        InPass(p) =>
            /\ hist[p].page_queries <= (NumActive \div deployment_batch_size) + 1
            /\ pc[p] = "commit" =>
                   /\ hist[p].page_queries =
                          (NumActive \div deployment_batch_size) + 1
                   /\ Len(page[p]) < deployment_batch_size
            /\ (pc[p] = "query" /\ hist[p].page_queries > 0) =>
                   /\ Len(page[p]) = deployment_batch_size
                   /\ last_id[p] = page[p][Len(page[p])]

\* the number of deployments is a multiple of the page size
C6_Witness ==
    \E p \in Procs :
        /\ pc[p] = "commit"
        /\ NumActive > 0
        /\ NumActive % deployment_batch_size = 0
        /\ hist[p].page_queries = CeilDiv(NumActive, deployment_batch_size) + 1

\* C7: when other deployments are inserted, deleted or updated between the
\* page queries of a pass, no deployment is handed to the generator twice,
\* and when the pass has left the loop every deployment that had an active
\* schedule from the start and was not touched has been handed over.
C7_StableDeploymentsVisitedOnce ==
    \A p \in Procs :
        /\ NoRepeats(hist[p].visited)
        /\ pc[p] = "commit" => hist[p].stable \subseteq Range(hist[p].visited)

C7_Witness ==
    \E p \in Procs :
        /\ pc[p] = "commit"
        /\ hist[p].changes > 0
        /\ hist[p].page_queries >= 3
        /\ hist[p].stable # {}
        /\ hist[p].visited[Len(hist[p].visited)] \in hist[p].stable
        /\ Range(hist[p].visited) # hist[p].stable

\* C8: the k runs of a page go to the bulk insert in ceil(k / insert batch
\* size) calls of at most insert batch size runs each, every run in exactly
\* one call and in order, and every call is followed by a flush.
C8_InsertsInBatches ==
    \A p \in Procs :
        /\ pc[p] = "insert" =>
               /\ Flatten(hist[p].offered) \o Flatten(batches[p]) = all_runs[p]
               /\ hist[p].flushes = Len(hist[p].offered)
        /\ pc[p] = "page_end" =>
               /\ Len(hist[p].offered) =
                      CeilDiv(Len(all_runs[p]), scheduler_insert_batch_size)
               /\ Flatten(hist[p].offered) = all_runs[p]
               /\ \A i \in 1..Len(hist[p].offered) :
                      /\ Len(hist[p].offered[i]) >= 1
                      /\ Len(hist[p].offered[i]) <= scheduler_insert_batch_size
               /\ hist[p].flushes = Len(hist[p].offered)

\* two runs and an insert batch size of 1: two separate insert calls
C8_Witness ==
    \E p \in Procs :
        /\ pc[p] = "page_end"
        /\ scheduler_insert_batch_size = 1
        /\ Len(all_runs[p]) = 2
        /\ Len(hist[p].offered) = 2
        /\ hist[p].flushes = 2

\* a deployment row that is there, with is_schedule_active = true and a schedule
ActiveWithSchedule(row) ==
    row.present /\ row.is_schedule_active = TRUE /\ row.schedule # None

\* the runs invocation p has collected or written
RunsOf(p) == Range(all_runs[p]) \cup BagToSet(session[p])

\* every run of a running invocation belongs to a deployment that was handed
\* to the generator, and those deployments had an active schedule at some
\* moment of the pass
RunsOnlyForEligible ==
    \A p \in Procs :
        InPass(p) =>
            /\ Range(hist[p].visited) \subseteq hist[p].eligible
            /\ \A run \in RunsOf(p) : run[1] \in Range(hist[p].visited)

\* a page query returns only deployments that have an active schedule then
QueriesActiveOnly(p) ==
    (pc[p] = "query" /\ pc'[p] # "query") =>
        \A i \in 1..Len(page'[p]) : ActiveWithSchedule(deployments[page'[p][i]])

\* a generator call is for a deployment of the page queried last, and what it
\* adds is what the generator returns for that deployment on the window
\* [now, now + max_scheduled_time]
GeneratesOnWindow(p) ==
    (InPass(p) /\ Len(hist'[p].visited) > Len(hist[p].visited)) =>
        \E d \in Range(page[p]) :
            /\ hist'[p].visited = Append(hist[p].visited, d)
            /\ all_runs'[p] = all_runs[p] \o
                   _generate_scheduled_flow_runs(deployments, d, now[p],
                                                 now[p] + max_scheduled_time, max_runs)

\* now is read from the clock when the invocation starts and stays
CapturesNowOnce(p) ==
    /\ (pc[p] = "idle" /\ pc'[p] # "idle") => now'[p] = clock
    /\ InPass(p) => now'[p] = now[p]

\* C13: in an invocation of run_once, each page query returns only
\* deployments that have is_schedule_active = true and a non-null schedule at
\* that moment; the generator is called only for deployments of the page, and
\* only their runs are written; a deployment that never had an active schedule
\* during the pass gets no run; and every generator call uses the window
\* [now, now + max_scheduled_time] of the one now read at the start, however
\* the clock and the table move meanwhile.
C13_OnlyActiveDeploymentsOneWindow ==
    [][/\ RunsOnlyForEligible'
       /\ \A p \in Procs : /\ QueriesActiveOnly(p)
                            /\ GeneratesOnWindow(p)
                            /\ CapturesNowOnce(p)]_vars

C13_Witness ==
    \E p \in Procs :
        /\ pc[p] = "commit"
        /\ clock > now[p]
        /\ hist[p].changes > 0
        /\ \E d \in Range(hist[p].visited) :
               /\ ~ActiveWithSchedule(deployments[d])
               /\ \E run \in BagToSet(session[p]) : run[1] = d
        /\ \E d \in DeploymentIds \ hist[p].eligible :
               /\ deployments[d].present
               /\ \A run \in BagToSet(session[p]) : run[1] # d

(***************************************************************************)
(* Properties of the filters                                               *)
(***************************************************************************)
Selected(clause) == clause = SqlTrue

\* the leaf classes with an any_ operator
AnyClasses ==
    AnyOnlyClasses \cup
    {"FlowRunFilterId", "FlowRunFilterDeploymentId", "FlowRunFilterParentTaskRunId"}

\* the value any_ is compared with in a row
AnyColumn(cls, r) ==
    CASE cls \in {"FlowRunFilterStateType", "TaskRunFilterStateType"} -> StateType(r)
      [] cls \in {"FlowRunFilterStateName", "TaskRunFilterStateName"} -> StateName(r)
      [] OTHER -> r[ColumnOf(cls)]

\* C9: a filter object, leaf or composite, with no operator and no slot set
\* compiles to a clause that is true on every row; so do the four default
\* filters of BaseFilterCriteria().
C9_UnsetFilterSelectsEverything ==
    (compiled # "pending" /\ ~AnySet(filter)) => compiled = SqlTrue

C9_Witness ==
    /\ compiled = SqlTrue
    /\ from_criteria
    /\ filter_class = "FlowRunFilter"
    /\ ~entity.deployment_id.some

\* C10 as stated: a leaf with any_ = [] selects a row exactly when the same
\* leaf with any_ unset selects it.
C10_Original ==
    (/\ compiled # "pending"
     /\ filter_class \in AnyClasses
     /\ filter.any_ = Some(<<>>)) =>
        (Selected(compiled) <=>
         Selected(as_sql_filter(_get_filter_list(
             filter_class, [filter EXCEPT !.any_ = NoneV], entity))))

\* C10, amended: an unset any_ imposes no constraint; a supplied any_, empty
\* or not, restricts the rows selected to those whose column value is in it,
\* so any_ = [] selects no row.
C10_AnySelectsMembers ==
    (compiled # "pending" /\ filter_class \in AnyClasses) =>
        (Selected(compiled) <=>
         /\ filter.any_.some =>
                /\ AnyColumn(filter_class, entity).some
                /\ AnyColumn(filter_class, entity).v \in Range(filter.any_.v)
         /\ Selected(as_sql_filter(_get_filter_list(
                filter_class, [filter EXCEPT !.any_ = NoneV], entity))))

C10_Witness ==
    /\ filter_class = "FlowRunFilterDeploymentId"
    /\ filter.any_ = Some(<<>>)
    /\ ~filter.is_null_.some
    /\ entity.deployment_id.some
    /\ compiled = SqlFalse

\* the leaf classes over a tags column
TagClasses ==
    {"FlowFilterTags", "FlowRunFilterTags", "TaskRunFilterTags",
     "DeploymentFilterTags"}

\* the tag set of a row
TagSet(r) == Range(r.tags.v)

\* C11: a tag leaf selects a row exactly when every operator it has set
\* holds: all_ is unset or every element of all_ is among the row's tags
\* (whatever the order and the duplicates in all_), and is_null_ is unset, or
\* is true and the row has no tag, or is false and the row has a tag; all_
\* and is_null_ set together both apply.
C11_TagLeafSelectsWhenEveryOperatorHolds ==
    (compiled # "pending" /\ filter_class \in TagClasses) =>
        (Selected(compiled) <=>
         /\ filter.all_.some =>
                \A i \in 1..Len(filter.all_.v) : filter.all_.v[i] \in TagSet(entity)
         /\ filter.is_null_.some =>
                IF filter.is_null_.v THEN TagSet(entity) = {}
                ELSE TagSet(entity) # {})

C11_Witness ==
    /\ filter_class = "DeploymentFilterTags"
    /\ filter.all_ = Some(<<"t1", "t2">>)
    /\ filter.is_null_ = Some(FALSE)
    /\ entity.tags = Some(<<"t2", "t1">>)
    /\ compiled = SqlTrue

\* the leaf class of a slot of a composite class
SlotClass(cls, slot) ==
    CASE slot = "state" ->
            (IF cls = "FlowRunFilter" THEN "FlowRunFilterState" ELSE "TaskRunFilterState")
      [] slot = "id" -> (CASE cls = "FlowFilter" -> "FlowFilterId"
                           [] cls = "FlowRunFilter" -> "FlowRunFilterId"
                           [] cls = "TaskRunFilter" -> "TaskRunFilterId"
                           [] cls = "DeploymentFilter" -> "DeploymentFilterId")
      [] slot = "name" -> (CASE cls = "FlowFilter" -> "FlowFilterName"
                             [] cls = "FlowRunFilter" -> "FlowRunFilterName"
                             [] cls = "TaskRunFilter" -> "TaskRunFilterName"
                             [] cls = "DeploymentFilter" -> "DeploymentFilterName")
      [] slot = "tags" -> (CASE cls = "FlowFilter" -> "FlowFilterTags"
                             [] cls = "FlowRunFilter" -> "FlowRunFilterTags"
                             [] cls = "TaskRunFilter" -> "TaskRunFilterTags"
                             [] cls = "DeploymentFilter" -> "DeploymentFilterTags")
      [] slot = "start_time" ->
            (IF cls = "FlowRunFilter" THEN "FlowRunFilterStartTime"
             ELSE "TaskRunFilterStartTime")
      [] slot = "deployment_id" -> "FlowRunFilterDeploymentId"
      [] slot = "flow_version" -> "FlowRunFilterFlowVersion"
      [] slot = "expected_start_time" -> "FlowRunFilterExpectedStartTime"
      [] slot = "next_scheduled_start_time" -> "FlowRunFilterNextScheduledStartTime"
      [] slot = "parent_task_run_id" -> "FlowRunFilterParentTaskRunId"
      [] slot = "subflow_runs" -> "TaskRunFilterSubFlowRuns"
      [] slot = "is_schedule_active" -> "DeploymentFilterIsScheduleActive"

\* the slots that are present in the filter object
PresentSlots == {slot \in SlotsOf(filter_class) : filter[slot].some}

\* the clause a present slot compiles to on the row
SlotClause(slot) ==
    as_sql_filter(_get_filter_list(SlotClass(filter_class, slot), filter[slot].v, entity))

\* the clause of the type or name leaf of the nested state filter
StateLeafClause(field) ==
    as_sql_filter(_get_filter_list(
        SlotClass(filter_class, "state") \o (IF field = "type" THEN "Type" ELSE "Name"),
        filter.state.v[field].v, entity))

\* C12: a composite filter selects a row exactly when the row satisfies the
\* clause of every present slot, absent slots adding nothing; a present state
\* slot is satisfied exactly when its present type and name leaves are; and
\* the compiled clause is fixed by the set of the present slots' clauses
\* (false when one is false, else null when one is null, else true), so the
\* order in which the slots are visited does not show in it.
C12_CompositeIsAndOfPresentSlots ==
    (compiled # "pending" /\ filter_class \in CompositeClasses) =>
        LET present == PresentSlots
            clause == [slot \in present |-> SlotClause(slot)]
            clauses == {clause[slot] : slot \in present}
        IN  /\ Selected(compiled) <=> \A slot \in present : Selected(clause[slot])
            /\ ("state" \in present) =>
                   (Selected(clause["state"]) <=>
                    \A field \in {"type", "name"} :
                        filter.state.v[field].some => Selected(StateLeafClause(field)))
            /\ compiled = (IF SqlFalse \in clauses THEN SqlFalse
                           ELSE IF SqlNull \in clauses THEN SqlNull
                           ELSE SqlTrue)

C12_Witness ==
    /\ filter_class = "FlowRunFilter"
    /\ PresentSlots = {"flow_version", "state"}
    /\ filter.state.v.type.some
    /\ filter.state.v.name.some
    /\ Selected(SlotClause("flow_version"))
    /\ Selected(StateLeafClause("type"))
    /\ ~Selected(StateLeafClause("name"))
    /\ compiled = SqlFalse

====
